---- MODULE Spec2Model ----
(***************************************************************************)
(* Model of optionalargs.h: option types declared by DECLARE_OPTION /      *)
(* DECLARE_OPTION_DEFAULT, the parameter-pack lookups GetOptionValue and   *)
(* GetOptionValueWithDefault, and the sample class TestClass whose         *)
(* constructor applies SetOption to each option.                           *)
(*                                                                         *)
(* A C++ type is a record [tmpl, vt, def, file, line]; a value is a record *)
(* [ty, val] (its type and its integer representation).  Everything the    *)
(* header decides at compile time (std::is_same_v, overload resolution,    *)
(* if constexpr) is computed here from the types of the values.  A call    *)
(* the compiler rejects yields the value IllFormed.                        *)
(***************************************************************************)
EXTENDS Integers, Sequences, FiniteSets, TLC

VARIABLES op, T, defaultValue, args, pc, result,
          m_nNumItems, m_bVerboseLogs, m_pData, calls

vars == <<op, T, defaultValue, args, pc, result,
          m_nNumItems, m_bVerboseLogs, m_pData, calls>>

\* Longest argument pack of a modelled call.
MaxArgs == 3

----------------------------------------------------------------------------
(* Types *)

\* A fundamental or enumeration type: int, bool, unsigned char, the
\* enumerations Flag (namespace scope) and opt::Mode (inside namespace opt).
Scalar(name) ==
    [tmpl |-> "scalar", vt |-> name, def |-> 0, file |-> "", line |-> 0]

\* A mutant of OptionalArg_t whose identity leaves out the line number tag.
OptionalArg_t_NoLineTag(ValueType_t, filenameTag, lineNumberTag) ==
    [tmpl |-> "OptionalArg_t", vt |-> ValueType_t, def |-> 0,
     file |-> filenameTag, line |-> 0]

\* OptionalArg_t<ValueType_t, filenameTag, lineNumberTag>
OptionalArg_t(ValueType_t, filenameTag, lineNumberTag) ==
    [tmpl |-> "OptionalArg_t", vt |-> ValueType_t, def |-> 0,
     file |-> filenameTag, line |-> lineNumberTag]

\* OptionalArgWithDefault_t<ValueType_t, defaultValue, filenameTag, lineNumberTag>
OptionalArgWithDefault_t(ValueType_t, dflt, filenameTag, lineNumberTag) ==
    [tmpl |-> "OptionalArgWithDefault_t", vt |-> ValueType_t, def |-> dflt,
     file |-> filenameTag, line |-> lineNumberTag]

\* The macro invocations of the modelled program.  ItemCount and VerboseLogs
\* are the header's own; the others are a user header's: Width, Height and
\* Capacity on lines of their own, Depth on the same line as Height.
Declarations ==
    { [name |-> "ItemCount",   macro |-> "DECLARE_OPTION_DEFAULT", vt |-> "int",
       def |-> 256, file |-> "optionalargs.h", line |-> 120],
      [name |-> "VerboseLogs", macro |-> "DECLARE_OPTION_DEFAULT", vt |-> "bool",
       def |-> 0,   file |-> "optionalargs.h", line |-> 121],
      [name |-> "Width",       macro |-> "DECLARE_OPTION",         vt |-> "int",
       def |-> 0,   file |-> "user.h", line |-> 10],
      [name |-> "Height",      macro |-> "DECLARE_OPTION",         vt |-> "int",
       def |-> 0,   file |-> "user.h", line |-> 11],
      [name |-> "Depth",       macro |-> "DECLARE_OPTION",         vt |-> "int",
       def |-> 0,   file |-> "user.h", line |-> 11],
      [name |-> "Capacity",    macro |-> "DECLARE_OPTION_DEFAULT", vt |-> "int",
       def |-> 256, file |-> "user.h", line |-> 12] }

\* DECLARE_OPTION( optionName, ValueType_t ): the type the alias names.
DECLARE_OPTION(d) == OptionalArg_t(d.vt, d.file, d.line)

\* DECLARE_OPTION_DEFAULT( optionName, ValueType_t, defaultValue )
DECLARE_OPTION_DEFAULT(d) == OptionalArgWithDefault_t(d.vt, d.def, d.file, d.line)

\* The type an invocation's optionName names.
TypeOf(d) ==
    IF d.macro = "DECLARE_OPTION" THEN DECLARE_OPTION(d) ELSE DECLARE_OPTION_DEFAULT(d)

Decl(n) == CHOOSE d \in Declarations : d.name = n

ItemCount   == TypeOf(Decl("ItemCount"))
VerboseLogs == TypeOf(Decl("VerboseLogs"))

IsWrapped(ty) == ty.tmpl # "scalar"

----------------------------------------------------------------------------
(* Values *)

Val(ty, v) == [ty |-> ty, val |-> v]

\* What a rejected (ill-formed) instantiation yields.
IllFormed == Val(Scalar("ill-formed"), 0)

\* The value-initialised ValueType_t ( m_value{} ).
Zero(vt) == Val(Scalar(vt), 0)

\* A mutant of is_same_v: structural comparison that ignores the
\* declaration-site tags.
is_same_v_Structural(A, B) ==
    /\ A.tmpl = B.tmpl
    /\ A.vt = B.vt
    /\ A.def = B.def

\* std::is_same_v<A, B>
is_same_v(A, B) == A = B

\* std::is_convertible_v<From, To>: identity, or an arithmetic or unscoped
\* enumeration type to an arithmetic type.  Nothing converts implicitly to an
\* enumeration, and the option structs convert to nothing.
is_convertible_v(From, To) ==
    \/ From = To
    \/ /\ From.tmpl = "scalar"
       /\ To.tmpl = "scalar"
       /\ To.vt \in {"int", "bool", "uchar"}

\* The implicit conversion of a return statement (or an initialiser) to the
\* type To.
Convert(v, To) ==
    IF v = IllFormed THEN IllFormed
    ELSE IF v.ty = To THEN v
    ELSE IF ~is_convertible_v(v.ty, To) THEN IllFormed
    ELSE Val(To, CASE To.vt = "bool"  -> (IF v.val # 0 THEN 1 ELSE 0)
                   [] To.vt = "uchar" -> v.val % 256
                   [] OTHER           -> v.val)

\* arg.m_value: the member of an option struct; a scalar has none.
m_value(arg) ==
    IF IsWrapped(arg.ty) THEN Val(Scalar(arg.ty.vt), arg.val) ELSE IllFormed

\* A mutant of DefaultConstructed: the default member initialiser is ignored.
DefaultConstructed_Zeroed(Ty) == Val(Ty, 0)

\* "T tmp;": m_value{} for OptionalArg_t, m_value = defaultValue for
\* OptionalArgWithDefault_t.
DefaultConstructed(Ty) ==
    IF Ty.tmpl = "OptionalArgWithDefault_t"
    THEN Val(Ty, Convert(Val(Scalar("int"), Ty.def), Scalar(Ty.vt)).val)
    ELSE Val(Ty, 0)

\* The global namespace is an associated namespace of the type: the option
\* templates live there, and so does the enumeration Flag.
GlobalAssociated(ty) == IsWrapped(ty) \/ ty.vt = "Flag"


\* Whether a call made from inside a template of the header, with arguments of
\* these types, sees the overloads declared after that template: they are
\* found only by argument-dependent lookup at the point of instantiation, that
\* is, when the global namespace is associated with one of the arguments.
FoundByADL(argTypes) == \E k \in 1..Len(argTypes) : GlobalAssociated(argTypes[k])

TypesOf(values) == [k \in 1..Len(values) |-> values[k].ty]

----------------------------------------------------------------------------
(* GetOptionValue *)

\* template<class T> GetOptionValue()
GetOptionValue_0(Ty) ==
    IF IsWrapped(Ty) THEN m_value(DefaultConstructed(Ty)) ELSE IllFormed

\* template<class T, class FirstArgType_t> GetOptionValue( FirstArgType_t arg )
GetOptionValue_1(Ty, arg) ==
    IF is_same_v(arg.ty, Ty)
    THEN m_value(arg)
    ELSE IF IsWrapped(Ty) THEN m_value(DefaultConstructed(Ty)) ELSE IllFormed

RECURSIVE GetOptionValue(_, _, _)

\* template<typename T, typename FirstArgType_t, typename ... restTypes>
\* GetOptionValue( FirstArgType_t arg, restTypes... restArgs )
GetOptionValue_N(Ty, arg, restArgs) ==
    IF is_same_v(arg.ty, Ty)
    THEN m_value(arg)
    ELSE GetOptionValue(Ty, restArgs, FALSE)

\* Overload resolution of GetOptionValue<T>( pack... ).  A call site that
\* follows the header (atCallSite) sees the three overloads, and for one
\* argument the non-variadic one is the more specialised.  The recursive call
\* of the variadic overload sees the one-argument overload only through
\* argument-dependent lookup.
GetOptionValue(Ty, pack, atCallSite) ==
    IF Len(pack) = 0 THEN GetOptionValue_0(Ty)
    ELSE IF Len(pack) = 1 /\ (atCallSite \/ FoundByADL(TypesOf(pack)))
         THEN GetOptionValue_1(Ty, pack[1])
         ELSE GetOptionValue_N(Ty, pack[1], Tail(pack))

----------------------------------------------------------------------------
(* GetOptionValueWithDefault *)

\* A mutant of GetOptionValueWithDefault_0: the fallback is the default of
\* the option's declaration, not the caller's.
GetOptionValueWithDefault_0_Declared(Ty, dflt) ==
    IF IsWrapped(Ty) THEN Convert(m_value(DefaultConstructed(Ty)), dflt.ty) ELSE dflt

\* template<class T> GetOptionValueWithDefault( auto defaultValue )
GetOptionValueWithDefault_0(Ty, dflt) == dflt

\* template<class T, class FirstArgType_t, class ValueType_t>
\* ValueType_t GetOptionValueWithDefault( ValueType_t defaultValue, FirstArgType_t arg )
GetOptionValueWithDefault_1(Ty, dflt, arg) ==
    IF is_same_v(arg.ty, Ty)
    THEN Convert(m_value(arg), dflt.ty)
    ELSE dflt

RECURSIVE GetOptionValueWithDefault(_, _, _, _)

\* template<typename T, typename FirstArgType_t, typename ... restTypes, class ValueType_t>
\* ValueType_t GetOptionValueWithDefault( ValueType_t defaultValue,
\*                                        FirstArgType_t arg, restTypes... restArgs )
GetOptionValueWithDefault_N(Ty, dflt, arg, restArgs) ==
    IF is_same_v(arg.ty, Ty)
    THEN IF is_convertible_v(arg.ty, dflt.ty)
         THEN Convert(arg, dflt.ty)
         ELSE Convert(m_value(arg), dflt.ty)
    ELSE Convert(GetOptionValueWithDefault(Ty, dflt, restArgs, FALSE), dflt.ty)

\* Overload resolution of GetOptionValueWithDefault<T>( defaultValue, pack... ),
\* as for GetOptionValue; the arguments of the recursive call are the default
\* and the rest of the pack.
GetOptionValueWithDefault(Ty, dflt, pack, atCallSite) ==
    IF Len(pack) = 0 THEN GetOptionValueWithDefault_0(Ty, dflt)
    ELSE IF Len(pack) = 1 /\ (atCallSite \/ FoundByADL(<<dflt.ty>> \o TypesOf(pack)))
         THEN GetOptionValueWithDefault_1(Ty, dflt, pack[1])
         ELSE GetOptionValueWithDefault_N(Ty, dflt, pack[1], Tail(pack))

----------------------------------------------------------------------------
(* TestClass *)

\* The object before the constructor body runs: the default member
\* initialisers; m_pData is <<>> when null and <<n>> when it owns n ints.
\* calls records the SetOption calls made so far.
MemberInit ==
    [m_nNumItems |-> 101, m_bVerboseLogs |-> FALSE, m_pData |-> <<>>,
     calls |-> <<>>, thrown |-> FALSE]

\* void SetOption( opt::ItemCount x ) { m_nNumItems = x.m_value; }
SetOption_ItemCount(self, x) ==
    [self EXCEPT !.m_nNumItems = m_value(x).val, !.calls = Append(@, x)]

\* A mutant of SetOption_VerboseLogs: it stores into m_nNumItems.
SetOption_VerboseLogs_WrongMember(self, x) ==
    [self EXCEPT !.m_nNumItems = m_value(x).val, !.calls = Append(@, x)]

\* void SetOption( opt::VerboseLogs x ) { m_bVerboseLogs = x.m_value; }
SetOption_VerboseLogs(self, x) ==
    [self EXCEPT !.m_bVerboseLogs = (m_value(x).val # 0), !.calls = Append(@, x)]

\* Whether overload resolution finds a SetOption for the argument.
HasSetOption(x) == x.ty \in {ItemCount, VerboseLogs}

\* SetOption( x ): the overload of the argument's type.
SetOption(self, x) ==
    IF x.ty = ItemCount THEN SetOption_ItemCount(self, x)
                        ELSE SetOption_VerboseLogs(self, x)

\* A mutant of FoldOrder: the pack is expanded right to left.
FoldOrder_Reversed(n, k) == n + 1 - k

\* ( SetOption( options), ...): the k-th call of the fold over the comma
\* operator takes the k-th option of the pack.
FoldOrder(n, k) == k

RECURSIVE Fold(_, _, _)
Fold(self, options, k) ==
    IF k > Len(options) THEN self
    ELSE Fold(SetOption(self, options[FoldOrder(Len(options), k)]), options, k + 1)

\* TestClass( char const *pMsg, optionTypes_t... options ): the fold, then
\* m_pData.reset( new int[m_nNumItems] ), which throws
\* std::bad_array_new_length for a negative length.
TestClass(options) ==
    LET self == Fold(MemberInit, options, 1) IN
    IF self.m_nNumItems < 0
    THEN [self EXCEPT !.thrown = TRUE]
    ELSE [self EXCEPT !.m_pData = <<self.m_nNumItems>>]

----------------------------------------------------------------------------
(* The calls of a program *)

\* The option instances and bare scalars a call site passes.
ArgValues ==
       {Val(ItemCount, v) : v \in {-1, 50, 100}}
  \cup {Val(VerboseLogs, v) : v \in {0, 1}}
  \cup {Val(TypeOf(Decl("Width")), 7), Val(TypeOf(Decl("Height")), 8),
        Val(TypeOf(Decl("Depth")), 8), Val(TypeOf(Decl("Capacity")), 50)}
  \cup {Val(Scalar("Flag"), 2), Val(Scalar("opt::Mode"), 2)}

\* The option types a lookup targets.
Targets == {TypeOf(d) : d \in Declarations} \cup {Scalar("Flag"), Scalar("opt::Mode")}

\* The defaults a caller supplies to GetOptionValueWithDefault.
Defaults ==
    {Val(Scalar("int"), 77), Val(Scalar("bool"), 0), Val(Scalar("uchar"), 9),
     Val(Scalar("Flag"), 1), Val(Scalar("opt::Mode"), 1)}

Packs == UNION {[1..n -> ArgValues] : n \in 0..MaxArgs}

NoResult == Val(Scalar("void"), 0)

Init ==
    /\ op \in {"GetOptionValue", "GetOptionValueWithDefault", "TestClass"}
    /\ args \in Packs
    /\ T \in IF op = "TestClass" THEN {ItemCount} ELSE Targets
    /\ defaultValue \in IF op = "GetOptionValueWithDefault" THEN Defaults
                                                            ELSE {NoResult}
    /\ pc = "call"
    /\ result = NoResult
    /\ m_nNumItems = MemberInit.m_nNumItems
    /\ m_bVerboseLogs = MemberInit.m_bVerboseLogs
    /\ m_pData = MemberInit.m_pData
    /\ calls = MemberInit.calls

\* GetOptionValue<T>( args... ) at a call site.
CallGetOptionValue ==
    /\ pc = "call"
    /\ op = "GetOptionValue"
    /\ result' = GetOptionValue(T, args, TRUE)
    /\ pc' = IF result' = IllFormed THEN "ill-formed" ELSE "done"
    /\ UNCHANGED <<op, T, defaultValue, args, m_nNumItems, m_bVerboseLogs, m_pData, calls>>

\* GetOptionValueWithDefault<T>( defaultValue, args... ) at a call site.
CallGetOptionValueWithDefault ==
    /\ pc = "call"
    /\ op = "GetOptionValueWithDefault"
    /\ result' = GetOptionValueWithDefault(T, defaultValue, args, TRUE)
    /\ pc' = IF result' = IllFormed THEN "ill-formed" ELSE "done"
    /\ UNCHANGED <<op, T, defaultValue, args, m_nNumItems, m_bVerboseLogs, m_pData, calls>>

\* TestClass y( pMsg, args... ) with an option SetOption has an overload for.
ConstructTestClass ==
    /\ pc = "call"
    /\ op = "TestClass"
    /\ \A k \in 1..Len(args) : HasSetOption(args[k])
    /\ LET self == TestClass(args) IN
         /\ m_nNumItems' = self.m_nNumItems
         /\ m_bVerboseLogs' = self.m_bVerboseLogs
         /\ m_pData' = self.m_pData
         /\ calls' = self.calls
         /\ pc' = IF self.thrown THEN "bad_array_new_length" ELSE "done"
    /\ UNCHANGED <<op, T, defaultValue, args, result>>

\* TestClass y( pMsg, args... ) with an option no SetOption overload takes:
\* the call does not compile.
RejectTestClass ==
    /\ pc = "call"
    /\ op = "TestClass"
    /\ \E k \in 1..Len(args) : ~HasSetOption(args[k])
    /\ pc' = "ill-formed"
    /\ UNCHANGED <<op, T, defaultValue, args, result, m_nNumItems, m_bVerboseLogs, m_pData, calls>>

Next ==
    \/ CallGetOptionValue
    \/ CallGetOptionValueWithDefault
    \/ ConstructTestClass
    \/ RejectTestClass

Spec == Init /\ [][Next]_vars

----------------------------------------------------------------------------
(* Properties *)

\* The positions of the pack that hold an instance of the type.
Occurrences(Ty) == {k \in 1..Len(args) : args[k].ty = Ty}

Leftmost(Ty)  == CHOOSE k \in Occurrences(Ty) : \A j \in Occurrences(Ty) : k <= j
Rightmost(Ty) == CHOOSE k \in Occurrences(Ty) : \A j \in Occurrences(Ty) : k >= j

Returned == pc \in {"done", "ill-formed"}

\* The default an invocation declares: that of DECLARE_OPTION_DEFAULT, and
\* the zero of the value type for DECLARE_OPTION.
DeclaredDefault(d) ==
    Val(Scalar(d.vt), IF d.macro = "DECLARE_OPTION_DEFAULT" THEN d.def ELSE 0)

\* C1 as stated: GetOptionValue<T> on a pack without an instance of T returns
\* the zero of the value type, also when T was declared with a default.
C1_AbsentYieldsZero ==
    (/\ Returned
     /\ op = "GetOptionValue"
     /\ T.tmpl = "OptionalArgWithDefault_t"
     /\ Occurrences(T) = {})
    => result = Zero(T.vt)

\* C1 amended: GetOptionValue<T> on a pack without an instance of T returns
\* the default of T's declaration (the payload of a default-constructed T):
\* the declared default for DECLARE_OPTION_DEFAULT, zero for DECLARE_OPTION.
C1_AbsentYieldsDeclaredDefault ==
    \A d \in Declarations :
        (/\ Returned
         /\ op = "GetOptionValue"
         /\ T = TypeOf(d)
         /\ Occurrences(T) = {})
        => (pc = "done" /\ result = DeclaredDefault(d))

C1_Witness ==
    /\ pc = "done"
    /\ op = "GetOptionValue"
    /\ T = ItemCount
    /\ Len(args) >= 2
    /\ Occurrences(T) = {}
    /\ result = Val(Scalar("int"), 256)

\* C2 as stated: when the bare scalar s is the only element of the scalar
\* option type T, GetOptionValueWithDefault<T>( default, ..., s, ... ), with
\* a default of that type, returns s wherever s stands in the pack.
C2_ScalarPassthrough ==
    (/\ Returned
     /\ op = "GetOptionValueWithDefault"
     /\ ~IsWrapped(T)
     /\ defaultValue.ty = T
     /\ Cardinality(Occurrences(T)) = 1)
    => (pc = "done" /\ result = args[Leftmost(T)])

\* The absence result of a lookup that targets the type of invocation d.
AbsenceResult(d) ==
    IF op = "GetOptionValue" THEN DeclaredDefault(d) ELSE defaultValue

\* C3 as stated: a lookup that targets the type of one invocation never
\* matches the instances made through any other invocation, and returns the
\* absence result.
C3_DistinctInvocations ==
    \A d1 \in Declarations :
        (/\ pc = "done"
         /\ op \in {"GetOptionValue", "GetOptionValueWithDefault"}
         /\ T = TypeOf(d1)
         /\ Len(args) >= 1
         /\ \A k \in 1..Len(args) :
               \E d2 \in Declarations \ {d1} : args[k].ty = TypeOf(d2))
        => result = AbsenceResult(d1)

\* C3 amended: a lookup that targets the type of one invocation never matches
\* the instances made through an invocation at another declaration site
\* (another file or another line), even when value type and default
\* coincide, and returns the absence result.
C3_DistinctSites ==
    \A d1 \in Declarations :
        (/\ pc = "done"
         /\ op \in {"GetOptionValue", "GetOptionValueWithDefault"}
         /\ T = TypeOf(d1)
         /\ Len(args) >= 1
         /\ \A k \in 1..Len(args) :
               \E d2 \in Declarations :
                   /\ d2.file # d1.file \/ d2.line # d1.line
                   /\ args[k].ty = TypeOf(d2))
        => result = AbsenceResult(d1)

C3_Witness ==
    /\ pc = "done"
    /\ op = "GetOptionValue"
    /\ T = TypeOf(Decl("Width"))
    /\ args = <<Val(TypeOf(Decl("Height")), 8)>>
    /\ result = Val(Scalar("int"), 0)

\* C4 as stated: TestClass ends with itemCount=256, verboseLogs=false for no
\* option, 50 and false for [ItemCount(50)], 100 and true for
\* [VerboseLogs(true), ItemCount(100)].
C4_SetterExamples ==
    (pc = "done" /\ op = "TestClass")
    => /\ args = <<>>
          => (m_nNumItems = 256 /\ m_bVerboseLogs = FALSE)
       /\ args = <<Val(ItemCount, 50)>>
          => (m_nNumItems = 50 /\ m_bVerboseLogs = FALSE)
       /\ args = <<Val(VerboseLogs, 1), Val(ItemCount, 100)>>
          => (m_nNumItems = 100 /\ m_bVerboseLogs = TRUE)

\* C5 as stated: with two or more instances of T in the pack, GetOptionValue
\* and GetOptionValueWithDefault both return the payload of the leftmost.
C5_LeftmostTieBreak ==
    (/\ pc = "done"
     /\ op \in {"GetOptionValue", "GetOptionValueWithDefault"}
     /\ IsWrapped(T)
     /\ Cardinality(Occurrences(T)) >= 2)
    => result.val = args[Leftmost(T)].val

\* C6: with exactly one instance of T in the pack, GetOptionValue<T> returns
\* its payload, whatever its position and whatever the other elements.
C6_PresenceYieldsPayload ==
    (/\ Returned
     /\ op = "GetOptionValue"
     /\ IsWrapped(T)
     /\ Cardinality(Occurrences(T)) = 1)
    => (pc = "done" /\ result = Val(Scalar(T.vt), args[Leftmost(T)].val))

C6_Witness ==
    /\ pc = "done"
    /\ op = "GetOptionValue"
    /\ T = ItemCount
    /\ Len(args) = 3
    /\ Occurrences(T) = {2}
    /\ args[1].ty = Scalar("Flag")
    /\ result = Val(Scalar("int"), 100)

\* C7: GetOptionValueWithDefault<T>( custom, args... ) on a pack without an
\* instance of T returns custom, whatever T's declaration says.
C7_AbsentYieldsCallerDefault ==
    (/\ Returned
     /\ op = "GetOptionValueWithDefault"
     /\ Occurrences(T) = {})
    => (pc = "done" /\ result = defaultValue)

C7_Witness ==
    /\ pc = "done"
    /\ op = "GetOptionValueWithDefault"
    /\ T = ItemCount
    /\ defaultValue = Val(Scalar("int"), 77)
    /\ Len(args) >= 2
    /\ Occurrences(T) = {}
    /\ result = Val(Scalar("int"), 77)

\* C8: constructing TestClass with [A(a), B(b)], A and B distinct option
\* types, ends in the same m_nNumItems and m_bVerboseLogs as [B(b), A(a)].
C8_SetterOrderIndependent ==
    (/\ pc \in {"done", "bad_array_new_length"}
     /\ op = "TestClass"
     /\ Len(args) = 2
     /\ args[1].ty # args[2].ty)
    => LET swapped == TestClass(<<args[2], args[1]>>) IN
         /\ m_nNumItems = swapped.m_nNumItems
         /\ m_bVerboseLogs = swapped.m_bVerboseLogs
         /\ (pc = "bad_array_new_length") = swapped.thrown

C8_Witness ==
    /\ pc = "done"
    /\ op = "TestClass"
    /\ args = <<Val(VerboseLogs, 1), Val(ItemCount, 100)>>
    /\ m_nNumItems = 100
    /\ m_bVerboseLogs = TRUE

\* C9 as stated: when the pack holds a wrapped instance of T,
\* GetOptionValueWithDefault<T> returns its payload whatever the value and
\* the type of the caller's default (of those the call accepts).
C9_PresenceIgnoresDefault ==
    (/\ pc = "done"
     /\ op = "GetOptionValueWithDefault"
     /\ IsWrapped(T)
     /\ Occurrences(T) # {})
    => result.val = args[Leftmost(T)].val

\* C10: the constructor calls SetOption once per argument, left to right,
\* from the member initial values: a field ends with the payload of the
\* rightmost instance of its option type, or with its initial value.
C10_SetterApplicationOrder ==
    (pc \in {"done", "bad_array_new_length"} /\ op = "TestClass")
    => /\ calls = args
       /\ m_nNumItems =
            IF Occurrences(ItemCount) = {} THEN MemberInit.m_nNumItems
            ELSE args[Rightmost(ItemCount)].val
       /\ m_bVerboseLogs =
            IF Occurrences(VerboseLogs) = {} THEN MemberInit.m_bVerboseLogs
            ELSE args[Rightmost(VerboseLogs)].val # 0

C10_Witness ==
    /\ pc = "done"
    /\ op = "TestClass"
    /\ args = <<Val(ItemCount, 50), Val(ItemCount, 100)>>
    /\ calls = args
    /\ m_nNumItems = 100
    /\ m_bVerboseLogs = FALSE

====
